---- MODULE Spec2Model ----
(***************************************************************************)
(* A model of the GeminiX web adapter (src/GeminiX.ts): three static       *)
(* handles (generativeAI, model, chat) and the seven public operations     *)
(* that guard on them, translate their arguments into the vendor SDK's     *)
(* request shapes and delegate to the SDK.                                 *)
(*                                                                         *)
(* The vendor SDK (@google/generative-ai) is an external collaborator: its *)
(* answers (response texts, stream chunks, token counts) are chosen        *)
(* nondeterministically from small sets, and its ChatSession keeps a       *)
(* transcript to which a completed exchange appends a user turn and a      *)
(* model turn.                                                             *)
(*                                                                         *)
(* JavaScript is single threaded: a handler runs atomically up to its next *)
(* await.  initModel contains no await, so it runs as one step and may run *)
(* between any two steps of a suspended call.  The host issues one         *)
(* suspending call at a time; `call` records that call: its arguments, the *)
(* vendor calls it issued, its position (pc) and, once done, its outcome.  *)
(* `host` is the caller's own knowledge of the conversation it set up: the *)
(* chatHistory it gave to the last initChat that completed and the number  *)
(* of chat messages answered since.                                        *)
(***************************************************************************)
EXTENDS Naturals, Sequences, FiniteSets, TLC

VARIABLES generativeAI, model, chat, call, host

vars == <<generativeAI, model, chat, call, host>>

(***************************************************************************)
(* Bounds of the model.                                                    *)
(***************************************************************************)
MaxInits == 2       \* initModel calls in one run
MaxSettings == 1    \* entries of params.safetySettings
MaxHistory == 2     \* items of the chatHistory given to initChat
MaxTurns == 3       \* turns of a transcript
MaxChunks == 2      \* chunks of one vendor stream

(***************************************************************************)
(* Values.                                                                 *)
(***************************************************************************)
\* JavaScript's undefined: an unset handle, an omitted argument.
Undefined == [undefined |-> TRUE]

\* An object with no own property ({}).
EmptyObject == <<>>

ModelNotInitialized == "Model not initialized"
ChatNotInitialized == "Chat not initialized"
NoError == "no error"

Has(obj, key) == key \in DOMAIN obj

\* Injective sequences over S of length at most n.
SeqsUpTo(S, n) ==
  UNION {{s \in [1..k -> S] : \A i, j \in 1..k : s[i] = s[j] => i = j} : k \in 0..n}

RECURSIVE Concat(_)
Concat(strings) ==
  IF strings = <<>> THEN "" ELSE Head(strings) \o Concat(Tail(strings))

Reverse(s) == [i \in 1..Len(s) |-> s[Len(s) + 1 - i]]

(***************************************************************************)
(* Input universes.                                                        *)
(***************************************************************************)
SafetySettingLevel == {"NONE", "ONLY_HIGH", "MEDIUM_AND_ABOVE", "LOW_AND_ABOVE", "UNSPECIFIED"}

SafetySettingHarmCategory ==
  {"HARASSMENT", "HATE_SPEECH", "SEXUALLY_EXPLICIT", "DANGEROUS_CONTENT", "UNSPECIFIED"}

\* params.safetySettings: a mapping, iterated in insertion order; here the
\* sequence of its entries, one per key.
\* The categories the inputs use, and every level.
HarmCategoryInputs == {"HARASSMENT", "DANGEROUS_CONTENT"}

SafetySettingsInputs ==
  {s \in SeqsUpTo([category : HarmCategoryInputs, level : SafetySettingLevel], MaxSettings) :
     \A i, j \in 1..Len(s) : s[i].category = s[j].category => i = j}

ModelParamsInputs ==
  {[modelName |-> "gemini-pro", apiKey |-> "key"]}
  \cup {[modelName |-> "gemini-pro", apiKey |-> "key", safetySettings |-> s] : s \in SafetySettingsInputs}

\* GenerativeContentBlob values; the second carries an empty mime type.
PngBlob == [mimeType |-> "image/png", data |-> "UE5H"]
RawBlob == [mimeType |-> "", data |-> "UkFX"]
Blobs == {PngBlob, RawBlob}

\* Image lists: every arrangement of distinct blobs.
ImageLists == SeqsUpTo(Blobs, Cardinality(Blobs))

Texts == {"", "hi"}

\* inputText of sendChatMessage.
ChatTexts == {"hi"}

SendMessageOptionsInputs ==
  {Undefined, EmptyObject,
   [images |-> <<>>],
   [images |-> <<PngBlob, RawBlob>>],
   [onResponseChunk |-> TRUE],
   [images |-> <<PngBlob, RawBlob>>, onResponseChunk |-> TRUE]}

CountTokensOptionsInputs ==
  {Undefined, EmptyObject} \cup {[images |-> im] : im \in ImageLists}

CountChatTokensOptionsInputs ==
  {Undefined, EmptyObject}
  \cup {[inputText |-> t] : t \in Texts}
  \cup {[images |-> im] : im \in ImageLists}
  \cup {[inputText |-> t, images |-> im] : t \in Texts, im \in ImageLists \ {<<>>}}

\* Chat history items of every shape: either role; text given, empty or left
\* out; images given (two, in an order), empty or left out.
ChatHistoryItems ==
  {[isUser |-> TRUE, text |-> "hi"],
   [isUser |-> FALSE, text |-> "hi", images |-> <<RawBlob, PngBlob>>],
   [isUser |-> TRUE, text |-> "", images |-> <<PngBlob>>],
   [isUser |-> FALSE, images |-> <<>>]}

\* The arguments of initChat: chatHistory is optional.
InitChatInputs ==
  {EmptyObject}
  \cup {[chatHistory |-> h] : h \in UNION {[1..k -> ChatHistoryItems] : k \in 0..MaxHistory}}

(***************************************************************************)
(* The vendor SDK's answers.                                               *)
(***************************************************************************)
\* response.text() of a single-shot answer.
Replies == {"ok"}

\* chunk.text() of the chunks of a stream.
ChunkTexts == {"a", "b"}

\* result.stream: a finite sequence of chunks.
Streams == SeqsUpTo([text : ChunkTexts], MaxChunks)

\* totalTokens as the SDK reports it.
TokenCounts == {7}

\* chunk.text(): the partial text a chunk carries.
chunkText(chunk) == chunk.text

\* The identity of the model handle a vendor call is issued on (0: no handle).
HandleId(m) == IF m = Undefined THEN 0 ELSE m.id

\* GenerativeModel.startChat: a new session bound to the model it is called on,
\* its transcript seeded with the given history.
startChat(m, startChatParams) ==
  [model |-> HandleId(m), history |-> startChatParams.history]

\* ChatSession.getHistory.
getHistory(session) == session.history

\* ChatSession.sendMessage / sendMessageStream, once the exchange has completed:
\* the request is appended as a "user" turn, the response as a "model" turn.
\* A string of the request array stands in the transcript as a text part.
sessionAfterExchange(session, request, responseText) ==
  [session EXCEPT !.history =
     @ \o <<[role |-> "user", parts |-> request],
            [role |-> "model", parts |-> <<[text |-> responseText]>>]>>]

(***************************************************************************)
(* The adapter's translations (src/GeminiX.ts).                            *)
(***************************************************************************)
mapHarmCategory(harmCategory) ==
  CASE harmCategory = "HARASSMENT" -> "HARM_CATEGORY_HARASSMENT"
    [] harmCategory = "HATE_SPEECH" -> "HARM_CATEGORY_HATE_SPEECH"
    [] harmCategory = "SEXUALLY_EXPLICIT" -> "HARM_CATEGORY_SEXUALLY_EXPLICIT"
    [] harmCategory = "DANGEROUS_CONTENT" -> "HARM_CATEGORY_DANGEROUS_CONTENT"
    [] harmCategory = "UNSPECIFIED" -> "HARM_CATEGORY_UNSPECIFIED"
    [] OTHER -> "HARM_CATEGORY_UNSPECIFIED"

mapSafetySettingLevel(safetySettingLevel) ==
  CASE safetySettingLevel = "NONE" -> "BLOCK_NONE"
    [] safetySettingLevel = "ONLY_HIGH" -> "BLOCK_ONLY_HIGH"
    [] safetySettingLevel = "MEDIUM_AND_ABOVE" -> "BLOCK_MEDIUM_AND_ABOVE"
    [] safetySettingLevel = "LOW_AND_ABOVE" -> "BLOCK_MEDIUM_AND_ABOVE"
    [] safetySettingLevel = "UNSPECIFIED" -> "HARM_BLOCK_THRESHOLD_UNSPECIFIED"
    [] OTHER -> "HARM_BLOCK_THRESHOLD_UNSPECIFIED"

\* initModel: the SafetySetting[] built from params.safetySettings.
safetySettings(params) ==
  IF Has(params, "safetySettings")
  THEN [i \in 1..Len(params.safetySettings) |->
          [category |-> mapHarmCategory(params.safetySettings[i].category),
           threshold |-> mapSafetySettingLevel(params.safetySettings[i].level)]]
  ELSE <<>>

\* inlineDataParts, had the loop prepended each part (unshift for push).
inlineDataParts_reversed(images) ==
  [i \in 1..Len(images) |-> [inlineData |-> images[Len(images) + 1 - i]]]

\* One inline-data part per image, in the order of the list.
inlineDataParts(images) == [i \in 1..Len(images) |-> [inlineData |-> images[i]]]

\* sendMessage, countTokens, sendChatMessage: imageParts from options.images || [].
imageParts(options) ==
  IF options # Undefined
  THEN inlineDataParts(IF Has(options, "images") THEN options.images ELSE <<>>)
  ELSE <<>>

\* sendMessage, sendChatMessage: streamResponse.
streamResponse(options) ==
  options # Undefined /\ Has(options, "onResponseChunk")

\* [inputText, ...imageParts]; the string is written as the text part it denotes.
requestParts(inputText, options) ==
  <<[text |-> inputText]>> \o imageParts(options)

\* accumulate, had the loop assigned (=) where it adds (+=).
accumulate_overwrite(responseText, text) == text

\* The streaming loop's accumulation: responseText += chunkText.
accumulate(responseText, text) == responseText \o text

\* The streaming loop's callback: options.onResponseChunk(chunkText).
onResponseChunk(callbacks, text) == Append(callbacks, text)

\* initChat: the parts of one chat history item ("" is falsy).
chatHistoryItemParts(chatHistoryItem) ==
  (IF Has(chatHistoryItem, "text") /\ chatHistoryItem.text # ""
   THEN <<[text |-> chatHistoryItem.text]>> ELSE <<>>)
  \o (IF Has(chatHistoryItem, "images")
      THEN inlineDataParts(chatHistoryItem.images) ELSE <<>>)

\* modelChatHistory, had the loop prepended each turn (unshift for push).
modelChatHistory_reversed(args) ==
  IF Has(args, "chatHistory")
  THEN Reverse([i \in 1..Len(args.chatHistory) |->
          [role |-> IF args.chatHistory[i].isUser THEN "user" ELSE "model",
           parts |-> chatHistoryItemParts(args.chatHistory[i])]])
  ELSE <<>>

\* initChat: modelChatHistory.
modelChatHistory(args) ==
  IF Has(args, "chatHistory")
  THEN [i \in 1..Len(args.chatHistory) |->
          [role |-> IF args.chatHistory[i].isUser THEN "user" ELSE "model",
           parts |-> chatHistoryItemParts(args.chatHistory[i])]]
  ELSE <<>>

\* countChatTokens: parts built from options?.inputText and options?.images.
countChatTokensParts(options) ==
  (IF options # Undefined /\ Has(options, "inputText") /\ options.inputText # ""
   THEN <<[text |-> options.inputText]>> ELSE <<>>)
  \o (IF options # Undefined /\ Has(options, "images")
      THEN inlineDataParts(options.images) ELSE <<>>)

\* userHistory, without the parts.length > 0 check.
userHistory_always(options) ==
  <<[role |-> "user", parts |-> countChatTokensParts(options)]>>

\* countChatTokens: userHistory.
userHistory(options) ==
  IF Len(countChatTokensParts(options)) > 0
  THEN <<[role |-> "user", parts |-> countChatTokensParts(options)]>>
  ELSE <<>>

\* countChatTokens: contents = [...history, ...userHistory].
contents(history, options) == history \o userHistory(options)

\* getChatHistory: the type of one stored part.
partType(part) ==
  IF Has(part, "inlineData")
  THEN (IF part.inlineData.mimeType # "" THEN part.inlineData.mimeType ELSE "image")
  ELSE "text"

\* partContent, without the inline-data fallback: part.text || "".
partContent_textOnly(part) ==
  IF Has(part, "text") /\ part.text # "" THEN part.text ELSE ""

\* getChatHistory: part.text || part.inlineData?.data || "".
partContent(part) ==
  IF Has(part, "text") /\ part.text # "" THEN part.text
  ELSE IF Has(part, "inlineData") /\ part.inlineData.data # "" THEN part.inlineData.data
  ELSE ""

\* getChatHistory: the ModelChatHistoryItem[] returned for a transcript.
chatHistoryResult(history) ==
  [i \in 1..Len(history) |->
     [isUser |-> history[i].role = "user",
      parts |-> [j \in 1..Len(history[i].parts) |->
                   [type |-> partType(history[i].parts[j]),
                    content |-> partContent(history[i].parts[j])]]]]

\* modelGuard, with the check left out.
modelGuard_unchecked(m) == NoError

\* if(!this.model) throw new Error("Model not initialized"), as sendMessage and
\* countTokens open.
modelGuard(m) == IF m = Undefined THEN ModelNotInitialized ELSE NoError

\* initChatGuard, with the check left out.
initChatGuard_unchecked(m) == NoError

\* The same check as initChat opens with it.
initChatGuard(m) == IF m = Undefined THEN ModelNotInitialized ELSE NoError

\* chatGuard, with the two checks in the other order.
chatGuard_chatFirst(m, c) ==
  IF c = Undefined THEN ChatNotInitialized
  ELSE IF m = Undefined THEN ModelNotInitialized
  ELSE NoError

\* The two checks sendChatMessage, countChatTokens and getChatHistory open with.
chatGuard(m, c) ==
  IF m = Undefined THEN ModelNotInitialized
  ELSE IF c = Undefined THEN ChatNotInitialized
  ELSE NoError

(***************************************************************************)
(* Records of a call.                                                      *)
(***************************************************************************)
\* A call that threw before issuing any vendor call.
Thrown(op, args, message) ==
  [op |-> op, args |-> args, pc |-> "done", sdk |-> <<>>,
   status |-> "error", error |-> message]

\* A call that returned.
Returned(op, args, sdk, value) ==
  [op |-> op, args |-> args, pc |-> "done", sdk |-> sdk,
   status |-> "ok", value |-> value]

\* No call is in progress and none awaits its caller.
NoCall == [op |-> "none", pc |-> "idle", sdk |-> <<>>]

Idle == call.pc = "idle"

(***************************************************************************)
(* The operations.                                                         *)
(***************************************************************************)
Init ==
  /\ generativeAI = Undefined
  /\ model = Undefined
  /\ chat = Undefined
  /\ call = NoCall
  /\ host = [chatHistory |-> <<>>, sent |-> 0]

\* initModel never suspends: it may run while another call is suspended, whose
\* record it leaves alone.
initModel(params) ==
  /\ call.pc # "done"
  /\ HandleId(model) < MaxInits
  /\ generativeAI' = [apiKey |-> params.apiKey]
  /\ model' = [id |-> HandleId(model) + 1]
  /\ call' = IF Idle
             THEN Returned("initModel", params,
                    <<[api |-> "GoogleGenerativeAI", target |-> "client",
                       apiKey |-> params.apiKey],
                      [api |-> "getGenerativeModel", target |-> "client",
                       model |-> params.modelName,
                       safetySettings |-> safetySettings(params)]>>,
                    "void")
             ELSE call
  /\ UNCHANGED <<chat, host>>

sendMessage(inputText, options) ==
  /\ Idle
  /\ LET args == [inputText |-> inputText, options |-> options]
         request == requestParts(inputText, options)
     IN IF modelGuard(model) # NoError
        THEN call' = Thrown("sendMessage", args, modelGuard(model))
        ELSE IF streamResponse(options)
        THEN \E s \in Streams :
               call' = [op |-> "sendMessage", args |-> args, pc |-> "stream",
                        sdk |-> <<[api |-> "generateContentStream", target |-> "model",
                                   on |-> HandleId(model), request |-> request]>>,
                        stream |-> s, received |-> 0,
                        responseText |-> "", callbacks |-> <<>>]
        ELSE \E r \in Replies :
               call' = Returned("sendMessage", args,
                         <<[api |-> "generateContent", target |-> "model",
                            on |-> HandleId(model), request |-> request]>>, r)
  /\ UNCHANGED <<generativeAI, model, chat, host>>

countTokens(inputText, options) ==
  /\ Idle
  /\ LET args == [inputText |-> inputText, options |-> options]
     IN IF modelGuard(model) # NoError
        THEN call' = Thrown("countTokens", args, modelGuard(model))
        ELSE \E n \in TokenCounts :
               call' = Returned("countTokens", args,
                         <<[api |-> "countTokens", target |-> "model",
                            on |-> HandleId(model),
                            request |-> requestParts(inputText, options)]>>, n)
  /\ UNCHANGED <<generativeAI, model, chat, host>>

\* One turn of `for await (const chunk of result.stream)`, in sendMessage and in
\* sendChatMessage: the callback is called with the chunk's text, which is then
\* added to responseText.
streamChunk ==
  /\ call.pc = "stream"
  /\ call.received < Len(call.stream)
  /\ LET text == chunkText(call.stream[call.received + 1])
     IN call' = [call EXCEPT !.received = @ + 1,
                             !.callbacks = onResponseChunk(@, text),
                             !.responseText = accumulate(@, text)]
  /\ UNCHANGED <<generativeAI, model, chat, host>>

\* The stream is exhausted: the call returns responseText.  A chat exchange is
\* now complete, and the session holds it.
streamEnd ==
  /\ call.pc = "stream"
  /\ call.received = Len(call.stream)
  /\ call' = [op |-> call.op, args |-> call.args, pc |-> "done", sdk |-> call.sdk,
              status |-> "ok", value |-> call.responseText,
              stream |-> call.stream, callbacks |-> call.callbacks]
  /\ chat' = IF call.op = "sendChatMessage"
             THEN sessionAfterExchange(chat, call.sdk[1].request, call.responseText)
             ELSE chat
  /\ host' = IF call.op = "sendChatMessage"
             THEN [host EXCEPT !.sent = @ + 1]
             ELSE host
  /\ UNCHANGED <<generativeAI, model>>

\* initChat up to its await: the session is started on the model handle of now.
initChat(args) ==
  /\ Idle
  /\ LET startChatParams == [history |-> modelChatHistory(args)]
     IN IF initChatGuard(model) # NoError
        THEN call' = Thrown("initChat", args, initChatGuard(model))
        ELSE call' = [op |-> "initChat", args |-> args, pc |-> "await",
                      sdk |-> <<[api |-> "startChat", target |-> "model",
                                 on |-> HandleId(model),
                                 history |-> startChatParams.history]>>,
                      session |-> startChat(model, startChatParams)]
  /\ UNCHANGED <<generativeAI, model, chat, host>>

\* initChat after its await: this.chat = the session started before it.
initChatResume ==
  /\ call.pc = "await"
  /\ call.op = "initChat"
  /\ chat' = call.session
  /\ call' = Returned("initChat", call.args, call.sdk, "void")
  /\ host' = [chatHistory |-> IF Has(call.args, "chatHistory")
                              THEN call.args.chatHistory ELSE <<>>,
              sent |-> 0]
  /\ UNCHANGED <<generativeAI, model>>

sendChatMessage(inputText, options) ==
  /\ Idle
  /\ chat # Undefined => Len(chat.history) + 2 <= MaxTurns
  /\ LET args == [inputText |-> inputText, options |-> options]
         request == requestParts(inputText, options)
     IN IF chatGuard(model, chat) # NoError
        THEN /\ call' = Thrown("sendChatMessage", args, chatGuard(model, chat))
             /\ UNCHANGED <<chat, host>>
        ELSE IF streamResponse(options)
        THEN /\ \E s \in Streams :
                  call' = [op |-> "sendChatMessage", args |-> args, pc |-> "stream",
                           sdk |-> <<[api |-> "sendMessageStream", target |-> "chat",
                                      request |-> request]>>,
                           stream |-> s, received |-> 0,
                           responseText |-> "", callbacks |-> <<>>]
             /\ UNCHANGED <<chat, host>>
        ELSE \E r \in Replies :
               /\ call' = Returned("sendChatMessage", args,
                            <<[api |-> "sendMessage", target |-> "chat",
                               request |-> request]>>, r)
               /\ chat' = sessionAfterExchange(chat, request, r)
               /\ host' = [host EXCEPT !.sent = @ + 1]
  /\ UNCHANGED <<generativeAI, model>>

\* countChatTokens up to the await of this.chat.getHistory().
countChatTokens(options) ==
  /\ Idle
  /\ LET args == [options |-> options]
     IN IF chatGuard(model, chat) # NoError
        THEN call' = Thrown("countChatTokens", args, chatGuard(model, chat))
        ELSE call' = [op |-> "countChatTokens", args |-> args, pc |-> "await",
                      sdk |-> <<[api |-> "getHistory", target |-> "chat"]>>,
                      history |-> getHistory(chat)]
  /\ UNCHANGED <<generativeAI, model, chat, host>>

\* countChatTokens after it: the contents are counted by the model handle of now.
countChatTokensResume ==
  /\ call.pc = "await"
  /\ call.op = "countChatTokens"
  /\ \E n \in TokenCounts :
       call' = Returned("countChatTokens", call.args,
                 call.sdk \o <<[api |-> "countTokens", target |-> "model",
                                on |-> HandleId(model),
                                contents |-> contents(call.history, call.args.options)]>>,
                 n)
  /\ UNCHANGED <<generativeAI, model, chat, host>>

getChatHistory ==
  /\ Idle
  /\ IF chatGuard(model, chat) # NoError
     THEN call' = Thrown("getChatHistory", <<>>, chatGuard(model, chat))
     ELSE call' = Returned("getChatHistory", <<>>,
                    <<[api |-> "getHistory", target |-> "chat"]>>,
                    chatHistoryResult(getHistory(chat)))
  /\ UNCHANGED <<generativeAI, model, chat, host>>

\* The promise of the finished call settles: its caller has the outcome, and
\* the host may issue the next call.
settle ==
  /\ call.pc = "done"
  /\ call' = NoCall
  /\ UNCHANGED <<generativeAI, model, chat, host>>

Next ==
  \/ \E params \in ModelParamsInputs : initModel(params)
  \/ \E inputText \in Texts, options \in SendMessageOptionsInputs :
       sendMessage(inputText, options)
  \/ \E inputText \in Texts, options \in CountTokensOptionsInputs :
       countTokens(inputText, options)
  \/ \E args \in InitChatInputs : initChat(args)
  \/ initChatResume
  \/ \E inputText \in ChatTexts, options \in SendMessageOptionsInputs :
       sendChatMessage(inputText, options)
  \/ streamChunk
  \/ streamEnd
  \/ \E options \in CountChatTokensOptionsInputs : countChatTokens(options)
  \/ countChatTokensResume
  \/ getChatHistory
  \/ settle

Spec == Init /\ [][Next]_vars

(***************************************************************************)
(* Properties.                                                             *)
(***************************************************************************)
Done(op) == call.pc = "done" /\ call.op = op
DoneOk(op) == Done(op) /\ call.status = "ok"
Threw(message) == call.status = "error" /\ call.error = message

ModelGuardedOps ==
  {"sendMessage", "countTokens", "initChat",
   "sendChatMessage", "countChatTokens", "getChatHistory"}

ChatGuardedOps == {"sendChatMessage", "countChatTokens", "getChatHistory"}

\* The images an options argument carries (none when it is omitted).
ImagesOf(options) ==
  IF options # Undefined /\ Has(options, "images") THEN options.images ELSE <<>>

\* C1: an operation invoked while no model handle exists fails with "Model not
\* initialized", issues no vendor call and leaves the three handles as they were.
C1_FailsBeforeInitModel ==
  [][(model = Undefined /\ call'.pc = "done" /\ call'.op \in ModelGuardedOps)
       => /\ call'.status = "error"
          /\ call'.error = ModelNotInitialized
          /\ call'.sdk = <<>>
          /\ generativeAI' = generativeAI
          /\ model' = model
          /\ chat' = chat]_vars

C1_Witness ==
  /\ model = Undefined
  /\ Done("getChatHistory")
  /\ Threw(ModelNotInitialized)

\* C2: a chat operation invoked with a model handle but no conversation handle
\* fails with "Chat not initialized" and no vendor call; invoked with neither
\* handle it fails with "Model not initialized".
C2_ChatGuard ==
  (call.pc = "done" /\ call.op \in ChatGuardedOps)
    => /\ (model # Undefined /\ chat = Undefined)
            => (Threw(ChatNotInitialized) /\ call.sdk = <<>>)
       /\ (model = Undefined /\ chat = Undefined)
            => (Threw(ModelNotInitialized) /\ call.sdk = <<>>)

C2_Witness ==
  /\ model # Undefined
  /\ chat = Undefined
  /\ Done("sendChatMessage")
  /\ Threw(ChatNotInitialized)

\* C3: a conversation handle that exists was created from the model handle the
\* adapter holds now.
C3_ChatTiedToCurrentModel ==
  chat # Undefined => chat.model = HandleId(model)

\* C4: a streaming call hands the callback the text of each chunk, once and in
\* arrival order, and returns the concatenation of the chunk texts in that order.
C4_StreamingInOrder ==
  /\ call.pc = "stream"
       => /\ call.callbacks = [i \in 1..call.received |-> call.stream[i].text]
          /\ call.responseText = Concat(call.callbacks)
  /\ (call.pc = "done" /\ call.op \in {"sendMessage", "sendChatMessage"}
        /\ call.status = "ok" /\ streamResponse(call.args.options))
       => /\ Len(call.callbacks) = Len(call.stream)
          /\ \A i \in 1..Len(call.stream) : call.callbacks[i] = call.stream[i].text
          /\ call.value = Concat([i \in 1..Len(call.stream) |-> call.stream[i].text])

C4_Witness ==
  /\ DoneOk("sendChatMessage")
  /\ streamResponse(call.args.options)
  /\ Len(call.stream) = 2
  /\ call.value = "ba"

\* Whether countChatTokens' options carry a text, or at least one image.
CarriesText(options) ==
  options # Undefined /\ Has(options, "inputText") /\ options.inputText # ""

CarriesImage(options) == Len(ImagesOf(options)) > 0

\* C5: countChatTokens counts the transcript followed by exactly one "user"
\* turn when the options carry a text or an image, and the transcript alone
\* otherwise; the transcript itself is left as it was.
C5_CountChatTokensContents ==
  DoneOk("countChatTokens")
    => LET counted == call.sdk[2].contents
           options == call.args.options
           n == Len(chat.history)
       IN IF CarriesText(options) \/ CarriesImage(options)
          THEN /\ Len(counted) = n + 1
               /\ SubSeq(counted, 1, n) = chat.history
               /\ counted[n + 1].role = "user"
               /\ counted[n + 1].parts # <<>>
          ELSE counted = chat.history

C5_Witness ==
  /\ DoneOk("countChatTokens")
  /\ call.args.options = [inputText |-> "", images |-> <<RawBlob>>]
  /\ Len(chat.history) = 3
  /\ Len(call.sdk[2].contents) = 4

\* C6: after initChat(h) and k answered chat messages, getChatHistory returns
\* len(h) turns with the isUser of h's items, in h's order, then for each message
\* a user turn and a model turn.
C6_HistoryAfterInitChat ==
  DoneOk("getChatHistory")
    => LET h == host.chatHistory
           k == host.sent
           turns == call.value
       IN /\ Len(turns) = Len(h) + 2 * k
          /\ \A i \in 1..Len(h) : turns[i].isUser = h[i].isUser
          /\ \A j \in 1..k :
               /\ turns[Len(h) + 2 * j - 1].isUser = TRUE
               /\ turns[Len(h) + 2 * j].isUser = FALSE

C6_Witness ==
  /\ DoneOk("getChatHistory")
  /\ Len(host.chatHistory) = 1
  /\ host.chatHistory[1].isUser = FALSE
  /\ host.sent = 1
  /\ Len(call.value) = 3

\* The parts the claim describes: the text part, if there is one, then one
\* inline-data part per image in the order of the list.
PartsAsSpecified(textParts, images, parts) ==
  /\ Len(parts) = Len(textParts) + Len(images)
  /\ \A i \in 1..Len(textParts) : parts[i] = textParts[i]
  /\ \A i \in 1..Len(images) : parts[Len(textParts) + i] = [inlineData |-> images[i]]

TextPartOf(obj, key) ==
  IF obj # Undefined /\ Has(obj, key) /\ obj[key] # ""
  THEN <<[text |-> obj[key]]>> ELSE <<>>

\* C7: every request is the text part followed by the images in input order;
\* every turn built by initChat and by countChatTokens is the text part, if a
\* text is given, followed by the images in input order.
C7_PartsInInputOrder ==
  /\ (call.pc \in {"done", "stream"} /\ call.sdk # <<>>
        /\ call.op \in {"sendMessage", "countTokens", "sendChatMessage"})
       => PartsAsSpecified(<<[text |-> call.args.inputText]>>,
                           ImagesOf(call.args.options), call.sdk[1].request)
  /\ (call.pc \in {"done", "await"} /\ call.sdk # <<>> /\ call.op = "initChat")
       => LET h == IF Has(call.args, "chatHistory") THEN call.args.chatHistory ELSE <<>>
              built == call.sdk[1].history
          IN /\ Len(built) = Len(h)
             /\ \A i \in 1..Len(h) :
                  PartsAsSpecified(TextPartOf(h[i], "text"),
                                   IF Has(h[i], "images") THEN h[i].images ELSE <<>>,
                                   built[i].parts)
  /\ (DoneOk("countChatTokens") /\ Len(call.sdk[2].contents) > Len(chat.history))
       => PartsAsSpecified(TextPartOf(call.args.options, "inputText"),
                           ImagesOf(call.args.options),
                           call.sdk[2].contents[Len(chat.history) + 1].parts)

C7_Witness ==
  /\ DoneOk("initChat")
  /\ Len(call.sdk[1].history) = 2
  /\ call.sdk[1].history[2].parts
       = <<[text |-> "hi"], [inlineData |-> RawBlob], [inlineData |-> PngBlob]>>

\* The transcript getChatHistory read, and what it returned for it.
TurnsMapped(typeOf(_)) ==
  LET stored == chat.history
      turns == call.value
  IN /\ Len(turns) = Len(stored)
     /\ \A i \in 1..Len(stored) :
          /\ turns[i].isUser = (stored[i].role = "user")
          /\ Len(turns[i].parts) = Len(stored[i].parts)
          /\ \A j \in 1..Len(stored[i].parts) :
               LET part == stored[i].parts[j]
               IN /\ turns[i].parts[j].type = typeOf(part)
                  /\ turns[i].parts[j].content =
                       (IF Has(part, "text") THEN part.text
                        ELSE IF Has(part, "inlineData") THEN part.inlineData.data
                        ELSE "")

MimeTypeOrText(part) ==
  IF Has(part, "inlineData") THEN part.inlineData.mimeType ELSE "text"

MimeTypeOrImageOrText(part) ==
  IF ~Has(part, "inlineData") THEN "text"
  ELSE IF part.inlineData.mimeType = "" THEN "image"
  ELSE part.inlineData.mimeType

\* C8 as stated: the type of a part that carries inline data is its mime type,
\* also when that mime type is empty.
C8_AsStated == DoneOk("getChatHistory") => TurnsMapped(MimeTypeOrText)

\* C8, amended: getChatHistory maps every stored turn, in order, to {isUser,
\* parts} and every part to {type, content}; the type of a part that carries
\* inline data is its mime type, or "image" when the mime type is empty, and
\* "text" otherwise; the content is the text, else the payload, else "".
C8_HistoryMapping == DoneOk("getChatHistory") => TurnsMapped(MimeTypeOrImageOrText)

C8_Witness ==
  /\ DoneOk("getChatHistory")
  /\ Len(chat.history) = 3
  /\ Len(chat.history[1].parts) = 3
  /\ chat.history[1].parts[2] = [inlineData |-> RawBlob]
  /\ call.value[1].parts[2] = [type |-> "image", content |-> RawBlob.data]
  /\ call.value[3].parts = <<[type |-> "text", content |-> ""]>>

\* C9: a conversation handle exists only if a model handle exists, and no vendor
\* call on a conversation is issued, or a conversation started, without one.
C9_ChatNeedsModel ==
  /\ chat # Undefined => model # Undefined
  /\ (call.pc = "await" /\ call.op = "initChat") => model # Undefined
  /\ \A i \in 1..Len(call.sdk) : call.sdk[i].target = "chat" => model # Undefined

C9_Witness ==
  /\ chat # Undefined
  /\ model # Undefined
  /\ call.pc = "stream"
  /\ call.op = "sendChatMessage"
  /\ call.sdk[1].target = "chat"

\* The vendor threshold of the same meaning as a public level.
ThresholdOfSameMeaning(level) ==
  CASE level = "NONE" -> "BLOCK_NONE"
    [] level = "ONLY_HIGH" -> "BLOCK_ONLY_HIGH"
    [] level = "MEDIUM_AND_ABOVE" -> "BLOCK_MEDIUM_AND_ABOVE"
    [] level = "LOW_AND_ABOVE" -> "BLOCK_LOW_AND_ABOVE"
    [] level = "UNSPECIFIED" -> "HARM_BLOCK_THRESHOLD_UNSPECIFIED"

\* C10: the safety settings initModel passes to the vendor carry, for each
\* entry, the vendor threshold of the same meaning as the public level given.
C10_LevelsKeepTheirMeaning ==
  (Done("initModel") /\ Has(call.args, "safetySettings"))
    => LET given == call.args.safetySettings
           passed == call.sdk[2].safetySettings
       IN /\ Len(passed) = Len(given)
          /\ \A i \in 1..Len(given) :
               passed[i].threshold = ThresholdOfSameMeaning(given[i].level)

====
